---- MODULE Spec2Model ----
(***************************************************************************)
(* Draggable-triangle demo: three rendering engines (Engine = WebGPU,      *)
(* EngineGL = WebGL, EngineCanvas = 2D canvas) behind one lifecycle        *)
(* (create / start / stop / dispose), a pointer-drag tracker copied into   *)
(* each engine, and the Svelte component App that picks the engine.        *)
(*                                                                         *)
(* Numbers.  Translation components are held as exact fractions: x is the  *)
(* numerator over canvas.clientWidth and y the numerator over              *)
(* canvas.clientHeight, so dx / (w / 2) is the numerator 2 * dx and the    *)
(* clamp bounds -2 and 2 are the numerators -2 * w and 2 * w.              *)
(*                                                                         *)
(* Scheduling.  Everything runs on the browser's main thread.  A handler   *)
(* and the microtasks it queues (Svelte's flush, the continuation of an    *)
(* await on an already settled promise) finish before the next task, so    *)
(* each is one action.  Only Engine.init awaits the browser                *)
(* (requestAdapter, requestDevice); those awaits split it into steps.      *)
(***************************************************************************)
EXTENDS Integers, Sequences, FiniteSets, TLC

VARIABLES
    navigatorGpu,      \* "gpu" in navigator (host environment)
    phase,             \* component lifecycle: "init", "mounted", "destroyed"
    mode,              \* App.mode
    supportedWebGPU,   \* App.supportedWebGPU
    canvas,            \* App.canvas: id of the bound <canvas>, 0 = unbound
    engine,            \* App.engine: index into engines, 0 = null
    engines,           \* every engine instance constructed so far
    cleanups,          \* per canvas: the _engineCleanup* closures stored on it
    css,               \* CSS size of the canvas: [w, h]
    modeLog,           \* per mount and toggle: the mode it left and whether a
                       \* reconstruction followed it
    lastRunStartMode,  \* mode on entry of the latest reactive initEngine() call
    lastCall,          \* the latest lifecycle call, host command or browser frame
    devicePixelRatio,  \* window.devicePixelRatio, in percent
    moveLog,           \* per pointermove taken while dragging: dx and the x reached
    options,           \* App.glDesync, canvasDesync, glPower, gpuPower
    canvasKey,         \* App.canvasKey: [mode, stamp]; stamp is "now" while
                       \* Date.now() still returns the value in the key
    runModes           \* mode on entry of each initEngine() call started by the
                       \* latest mount or click, in order; empty if it started none

vars == <<navigatorGpu, phase, mode, supportedWebGPU, canvas, engine, engines,
          cleanups, css, modeLog, lastRunStartMode, lastCall, devicePixelRatio,
          moveLog, options, canvasKey, runModes>>

\* What no engine and no lifecycle step writes: CSS size, pixel ratio, the
\* move log and the option buttons' values.
hostVars == <<css, devicePixelRatio, moveLog, options>>

appVars == <<navigatorGpu, phase, mode, supportedWebGPU, canvas, engine,
             modeLog, lastRunStartMode, canvasKey, runModes>>

(***************************************************************************)
(* Bounds of the model.                                                    *)
(***************************************************************************)
MaxToggles == 5
MaxHandles == 2
MaxMoves == 11     \* pointermoves logged in the saturation scenario
MaxSwitches == 1   \* toggles in the specification with dragging
MaxDragged == 1    \* the user drags on the first MaxDragged canvases
MaxRebuilds == 2   \* canvases replaced in the specification with option clicks
MaxCycle == 6      \* toggles in the specification of the toggle alone

(***************************************************************************)
(* Program constants.                                                      *)
(***************************************************************************)
CssWidth == 640
CssHeight == 400
ClampLimit == 2

Modes == {"webgpu", "webgl", "canvas"}

\* Pointer positions (clientX, clientY) offered to the drag tracker.
ClientXs == {0, 320, 400}
ClientYs == {200, 250}
LoopXs == {0, 640}
LoopYs == {200}

\* Values of window.devicePixelRatio, in percent.
DevicePixelRatios == {100, 150}

\* CSS sizes the side-by-side trackers are run on.
Surfaces == {[w |-> CssWidth, h |-> CssHeight], [w |-> 360, h |-> 200]}

Min(a, b) == IF a < b THEN a ELSE b
Max(a, b) == IF a > b THEN a ELSE b

Zero == [x |-> 0, y |-> 0]
IdlePointer == [dragging |-> FALSE, lastX |-> 0, lastY |-> 0]
NoOptions == [glDesync |-> FALSE, canvasDesync |-> FALSE,
              glPower |-> "default", gpuPower |-> "default"]
NoCleanup == [webgpu |-> 0, webgl |-> 0, canvas |-> 0]

\* A create() argument that carries the canvas only.
NoArgs == [desynchronized |-> FALSE, powerPreference |-> "default"]

(***************************************************************************)
(* An engine instance right after its constructor.  The fields after       *)
(* "uniform" are not fields of the class: initStage is the position of     *)
(* the pending init(), scheduled the browser's list of this engine's       *)
(* requestAnimationFrame callbacks, preClamp the value translation held    *)
(* between the += / -= lines and the clamp of the last pointermove,        *)
(* rendered the number of draw calls made by the latest step, disposed     *)
(* and halted record that dispose(), resp. stop() or dispose(), returned   *)
(* (halted is cleared by start()), drawn is the translation the latest     *)
(* render drew the triangle with, raised records that the latest call on   *)
(* the instance threw.  surface is the width and height attribute of the   *)
(* instance's canvas (640 x 400 in the markup).  program and buffer are    *)
(* EngineGL's: whether this.program is a linked program and this.buffer a  *)
(* buffer object; logged records a console.error call made by init();      *)
(* args are the option values in the argument of the create() call.        *)
(***************************************************************************)
newEngine(kind, c) ==
    [kind |-> kind, canvas |-> c,
     device |-> FALSE, ctx |-> FALSE, listeners |-> FALSE,
     running |-> FALSE, animationFrame |-> 0,
     translation |-> Zero, pointer |-> IdlePointer,
     needsUpload |-> (kind = "webgpu"), uniform |-> Zero,
     surface |-> [width |-> CssWidth, height |-> CssHeight],
     initStage |-> "new", scheduled |-> {}, preClamp |-> Zero,
     rendered |-> 0, drawn |-> Zero, raised |-> FALSE,
     disposed |-> FALSE, halted |-> FALSE,
     program |-> FALSE, buffer |-> FALSE, logged |-> FALSE,
     args |-> NoArgs]

Ready(e) == e.ctx /\ (e.kind = "webgpu" => e.device)

\* A world is the pair of collections the engine code reads and writes.
World(engs, cl) == [engines |-> engs, cleanups |-> cl]

(***************************************************************************)
(* Pointer-drag tracker.  An event ev is [clientX, clientY, captureOk]:    *)
(* captureOk = FALSE is a setPointerCapture / releasePointerCapture call   *)
(* that throws.  sz is the canvas's CSS size [w, h] (clientWidth,          *)
(* clientHeight).  The three engines each carry their own copy.            *)
(***************************************************************************)
Clamp(v, size) == Max(-ClampLimit * size, Min(ClampLimit * size, v))

\* ---- Engine (WebGPU) ----
onPointerDownGPU(e, ev) ==
    IF ~ev.captureOk THEN e   \* setPointerCapture threw: the handler stops there
    ELSE [e EXCEPT !.pointer = [dragging |-> TRUE, lastX |-> ev.clientX,
                                lastY |-> ev.clientY]]

accumulateGPU(e, ev) ==
    LET dx == ev.clientX - e.pointer.lastX
        dy == ev.clientY - e.pointer.lastY
    IN  [x |-> e.translation.x + 2 * dx, y |-> e.translation.y - 2 * dy]

\* Variant: the two Math.max(-2, Math.min(2, .)) lines are missing.
onPointerMoveGPUKeepsOvershoot(e, ev, sz) ==
    IF ~e.pointer.dragging THEN e
    ELSE LET t == accumulateGPU(e, ev)
         IN  [e EXCEPT !.pointer.lastX = ev.clientX,
                       !.pointer.lastY = ev.clientY,
                       !.preClamp = t,
                       !.translation = t,
                       !.needsUpload = TRUE]

onPointerMoveGPU(e, ev, sz) ==
    IF ~e.pointer.dragging THEN e
    ELSE LET t == accumulateGPU(e, ev)
         IN  [e EXCEPT !.pointer.lastX = ev.clientX,
                       !.pointer.lastY = ev.clientY,
                       !.preClamp = t,
                       !.translation = [x |-> Clamp(t.x, sz.w),
                                        y |-> Clamp(t.y, sz.h)],
                       !.needsUpload = TRUE]

\* releasePointerCapture sits in try { } catch { }: its failure changes nothing.
endDragGPU(e, ev) == [e EXCEPT !.pointer.dragging = FALSE]

\* ---- EngineGL ----
onPointerDownGL(e, ev) ==
    IF ~ev.captureOk THEN e
    ELSE [e EXCEPT !.pointer = [dragging |-> TRUE, lastX |-> ev.clientX,
                                lastY |-> ev.clientY]]

accumulateGL(e, ev) ==
    LET dx == ev.clientX - e.pointer.lastX
        dy == ev.clientY - e.pointer.lastY
    IN  [x |-> e.translation.x + 2 * dx, y |-> e.translation.y - 2 * dy]

\* Variant: the second clamp line clamps x again instead of y.
onPointerMoveGLClampXTwice(e, ev, sz) ==
    IF ~e.pointer.dragging THEN e
    ELSE LET t == accumulateGL(e, ev)
         IN  [e EXCEPT !.pointer.lastX = ev.clientX,
                       !.pointer.lastY = ev.clientY,
                       !.preClamp = t,
                       !.translation = [x |-> Clamp(Clamp(t.x, sz.w), sz.w),
                                        y |-> t.y]]

onPointerMoveGL(e, ev, sz) ==
    IF ~e.pointer.dragging THEN e
    ELSE LET t == accumulateGL(e, ev)
         IN  [e EXCEPT !.pointer.lastX = ev.clientX,
                       !.pointer.lastY = ev.clientY,
                       !.preClamp = t,
                       !.translation = [x |-> Clamp(t.x, sz.w),
                                        y |-> Clamp(t.y, sz.h)]]

endDragGL(e, ev) == [e EXCEPT !.pointer.dragging = FALSE]

\* ---- EngineCanvas ----
onPointerDownCanvas(e, ev) ==
    IF ~ev.captureOk THEN e
    ELSE [e EXCEPT !.pointer = [dragging |-> TRUE, lastX |-> ev.clientX,
                                lastY |-> ev.clientY]]

\* Variant: the y axis is not inverted.
accumulateCanvasNoFlip(e, ev) ==
    LET dx == ev.clientX - e.pointer.lastX
        dy == ev.clientY - e.pointer.lastY
    IN  [x |-> e.translation.x + 2 * dx, y |-> e.translation.y + 2 * dy]

accumulateCanvas(e, ev) ==
    LET dx == ev.clientX - e.pointer.lastX
        dy == ev.clientY - e.pointer.lastY
    IN  [x |-> e.translation.x + 2 * dx, y |-> e.translation.y - 2 * dy]

\* Variant: no "if (!this.pointer.dragging) return".
onPointerMoveCanvasUnguarded(e, ev, sz) ==
    LET t == accumulateCanvas(e, ev)
    IN  [e EXCEPT !.pointer.lastX = ev.clientX,
                  !.pointer.lastY = ev.clientY,
                  !.preClamp = t,
                  !.translation = [x |-> Clamp(t.x, sz.w),
                                   y |-> Clamp(t.y, sz.h)]]

onPointerMoveCanvas(e, ev, sz) ==
    IF ~e.pointer.dragging THEN e
    ELSE LET t == accumulateCanvas(e, ev)
         IN  [e EXCEPT !.pointer.lastX = ev.clientX,
                       !.pointer.lastY = ev.clientY,
                       !.preClamp = t,
                       !.translation = [x |-> Clamp(t.x, sz.w),
                                        y |-> Clamp(t.y, sz.h)]]

endDragCanvas(e, ev) == [e EXCEPT !.pointer.dragging = FALSE]

EventTypes == {"pointerdown", "pointermove", "pointerup", "pointerleave"}

\* The browser delivers an event to the listeners the engine has registered.
dispatch(e, type, ev, sz) ==
    IF ~e.listeners THEN e
    ELSE CASE e.kind = "webgpu" ->
                 (CASE type = "pointerdown" -> onPointerDownGPU(e, ev)
                    [] type = "pointermove" -> onPointerMoveGPU(e, ev, sz)
                    [] OTHER -> endDragGPU(e, ev))
           [] e.kind = "webgl" ->
                 (CASE type = "pointerdown" -> onPointerDownGL(e, ev)
                    [] type = "pointermove" -> onPointerMoveGL(e, ev, sz)
                    [] OTHER -> endDragGL(e, ev))
           [] OTHER ->
                 (CASE type = "pointerdown" -> onPointerDownCanvas(e, ev)
                    [] type = "pointermove" -> onPointerMoveCanvas(e, ev, sz)
                    [] OTHER -> endDragCanvas(e, ev))

(***************************************************************************)
(* Frame loop.  draw is the engine's render step: it returns the engine    *)
(* after the call and whether the call threw (a TypeError on the missing   *)
(* device, context or program of an instance whose init returned early).   *)
(***************************************************************************)
uploadUniforms(e) == [e EXCEPT !.uniform = e.translation, !.needsUpload = FALSE]

\* Math.floor(clientWidth * dpr), Math.floor(clientHeight * dpr)
backingSize(sz, dpr) ==
    [width |-> (sz.w * dpr) \div 100, height |-> (sz.h * dpr) \div 100]

\* Engine.configureContext, and the first lines of EngineCanvas.draw: the
\* canvas takes the backing size.
configureContext(e, sz, dpr) == [e EXCEPT !.surface = backingSize(sz, dpr)]

\* window 'resize': Engine reconfigures its context, the other two do nothing.
onResize(e, sz, dpr) ==
    IF ~e.listeners THEN e
    ELSE IF e.kind = "webgpu" THEN configureContext(e, sz, dpr)
    ELSE e

\* Variant: drawFrame without "if (this.needsUpload) this.uploadUniforms()".
drawWithoutUpload(e) ==
    LET called == [e EXCEPT !.rendered = @ + 1]
    IN  IF ~Ready(e) THEN [e |-> called, threw |-> TRUE]
        ELSE IF e.kind = "webgpu"
             THEN [e |-> [called EXCEPT !.drawn = called.uniform], threw |-> FALSE]
             ELSE IF e.kind = "webgl"
             THEN [e |-> IF e.program /\ e.buffer
                         THEN [called EXCEPT !.drawn = called.translation]
                         ELSE called,   \* the GL calls fail without throwing
                   threw |-> FALSE]
             ELSE [e |-> [configureContext(called, css, devicePixelRatio)
                          EXCEPT !.drawn = called.translation],
                   threw |-> FALSE]

\* The WebGPU triangle is drawn from the uniform buffer, the WebGL one from
\* gl.uniform2f(translation), the 2D one from this.translation; the 2D draw
\* first sizes the canvas.
draw(e) ==
    LET called == [e EXCEPT !.rendered = @ + 1]
    IN  IF ~Ready(e) THEN [e |-> called, threw |-> TRUE]
        ELSE IF e.kind = "webgpu"
             THEN LET up == IF e.needsUpload THEN uploadUniforms(called) ELSE called
                  IN  [e |-> [up EXCEPT !.drawn = up.uniform], threw |-> FALSE]
             ELSE IF e.kind = "webgl"
             THEN [e |-> IF e.program /\ e.buffer
                         THEN [called EXCEPT !.drawn = called.translation]
                         ELSE called,   \* the GL calls fail without throwing
                   threw |-> FALSE]
             ELSE [e |-> [configureContext(called, css, devicePixelRatio)
                          EXCEPT !.drawn = called.translation],
                   threw |-> FALSE]

\* requestAnimationFrame(frame): a handle not in use; 0 is never a handle.
NewHandle(e) == CHOOSE h \in 1..(MaxHandles + 1) : h \notin e.scheduled

requestFrame(e) ==
    LET h == NewHandle(e)
    IN  [e EXCEPT !.animationFrame = h, !.scheduled = @ \cup {h}]

\* const frame = () => { if (!this.running) return; draw; animationFrame = rAF(frame) }
frame(e) ==
    IF ~e.running THEN e
    ELSE LET d == draw(e)
         IN  IF d.threw THEN [d.e EXCEPT !.raised = TRUE] ELSE requestFrame(d.e)

\* Variant: no "if (this.running) return".
startUnguarded(e) == frame([e EXCEPT !.running = TRUE])

start(e) ==
    IF e.running THEN e
    ELSE frame([e EXCEPT !.running = TRUE])

\* Variant: only forgets the handle; the flag stays set and nothing is cancelled.
stopForgetsLoop(e) == [e EXCEPT !.animationFrame = 0]

\* Variant: stop() without the cancelAnimationFrame call.
stopKeepsCallback(e) == [e EXCEPT !.running = FALSE, !.animationFrame = 0]

stop(e) ==
    [e EXCEPT !.running = FALSE,
              !.scheduled = IF e.animationFrame # 0
                            THEN @ \ {e.animationFrame} ELSE @,
              !.animationFrame = 0]

\* The browser's frame: the callbacks listed at its start run once each.
RECURSIVE runCallbacks(_, _)
runCallbacks(e, n) == IF n = 0 THEN e ELSE runCallbacks(frame(e), n - 1)

animationFrameTick(e) ==
    runCallbacks([e EXCEPT !.scheduled = {}], Cardinality(e.scheduled))

(***************************************************************************)
(* Listener registration and disposal.  setupEvents stores a closure that  *)
(* removes this instance's listeners on the canvas, under a property name  *)
(* of the engine's kind; dispose() reads it back from the canvas.          *)
(***************************************************************************)
setupEvents(w, id) ==
    LET e == w.engines[id]
    IN  World([w.engines EXCEPT ![id].listeners = TRUE],
              [w.cleanups EXCEPT ![e.canvas][e.kind] = id])

\* Variant: dispose() is stop() alone.
disposeWithoutCleanup(w, id) ==
    World([w.engines EXCEPT ![id] = stop(w.engines[id])], w.cleanups)

\* Variant: "cleanup()" without "if (cleanup)": undefined is called.
disposeUnchecked(w, id) ==
    LET e == w.engines[id]
        stopped == [w.engines EXCEPT ![id] = stop(e)]
        cleanup == w.cleanups[e.canvas][e.kind]
    IN  World(IF cleanup # 0
              THEN [stopped EXCEPT ![cleanup].listeners = FALSE]
              ELSE [stopped EXCEPT ![id].raised = TRUE],
              w.cleanups)

dispose(w, id) ==
    LET e == w.engines[id]
        stopped == [w.engines EXCEPT ![id] = stop(e)]
        cleanup == w.cleanups[e.canvas][e.kind]
    IN  World(IF cleanup # 0
              THEN [stopped EXCEPT ![cleanup].listeners = FALSE]
              ELSE stopped,
              w.cleanups)

\* Bookkeeping of the calls that returned (not program state).
Halted(engs, id) == [engs EXCEPT ![id].halted = TRUE]
Disposed(engs, id) == [engs EXCEPT ![id].halted = TRUE, ![id].disposed = TRUE]
Quiet(engs) ==
    [i \in DOMAIN engs |-> [engs[i] EXCEPT !.rendered = 0, !.raised = FALSE]]

(***************************************************************************)
(* create(): constructor, then init().  Engine.init awaits the adapter     *)
(* and the device; the other two inits are synchronous.                    *)
(***************************************************************************)
\* Variant: the translation object is shared with the previous instance.
constructSharingTranslation(w, kind, c) ==
    World(Append(w.engines,
                 [newEngine(kind, c) EXCEPT !.translation =
                      IF w.engines = <<>> THEN Zero
                      ELSE w.engines[Len(w.engines)].translation]),
          w.cleanups)

construct(w, kind, c) ==
    World(Append(w.engines, newEngine(kind, c)), w.cleanups)

\* Engine.init up to the first await: 'gpu' in navigator, then requestAdapter().
initGPUBegin(w, id, gpu) ==
    World([w.engines EXCEPT ![id].initStage = IF gpu THEN "adapter" ELSE "done",
                            ![id].logged = ~gpu],
          w.cleanups)

\* requestAdapter() settled: null ends init, otherwise requestDevice() is awaited.
initGPUAdapter(w, id, adapterOk) ==
    World([w.engines EXCEPT ![id].initStage = IF adapterOk THEN "device" ELSE "done",
                            ![id].logged = ~adapterOk],
          w.cleanups)

\* requestDevice() settled: context, pipeline, uniforms, listeners.
initGPUDevice(w, id, ctxOk) ==
    LET withDevice == [w.engines EXCEPT ![id].device = TRUE, ![id].initStage = "done"]
    IN  IF ~ctxOk THEN World([withDevice EXCEPT ![id].logged = TRUE], w.cleanups)
        ELSE setupEvents(
                 World([withDevice EXCEPT ![id] =
                            uploadUniforms(configureContext([@ EXCEPT !.ctx = TRUE],
                                                            css, devicePixelRatio))],
                       w.cleanups), id)

\* What EngineGL.setupGL can meet: every object created and linked, a shader
\* that does not compile or a program that does not link, or createBuffer()
\* returning null.
GLResults == {"ok", "link", "buffer"}

\* EngineGL.setupGL: a failed compile or link is logged and the program is
\* kept all the same; the buffer is not checked.
setupGL(e, res) ==
    [e EXCEPT !.program = (res # "link"), !.buffer = (res # "buffer"),
              !.logged = (res = "link")]

initGL(w, id, ctxOk, res) ==
    LET done == World([w.engines EXCEPT ![id].initStage = "done"], w.cleanups)
    IN  IF ~ctxOk THEN World([done.engines EXCEPT ![id].logged = TRUE], w.cleanups)
        ELSE setupEvents(World([done.engines EXCEPT ![id] =
                                    setupGL([@ EXCEPT !.ctx = TRUE], res)],
                               w.cleanups), id)

initCanvas(w, id, ctxOk) ==
    LET done == World([w.engines EXCEPT ![id].initStage = "done"], w.cleanups)
    IN  IF ~ctxOk THEN World([done.engines EXCEPT ![id].logged = TRUE], w.cleanups)
        ELSE setupEvents(World([done.engines EXCEPT ![id].ctx = TRUE], w.cleanups), id)

createGL(w, c, ctxOk, res) ==
    initGL(construct(w, "webgl", c), Len(w.engines) + 1, ctxOk, res)
createCanvas(w, c, ctxOk) == initCanvas(construct(w, "canvas", c), Len(w.engines) + 1, ctxOk)

\* A create() whose awaits all settle at once, for engines set up before a run.
createGPUNow(w, c, gpu, adapterOk, ctxOk) ==
    LET id == Len(w.engines) + 1
        w1 == initGPUBegin(construct(w, "webgpu", c), id, gpu)
        w2 == IF w1.engines[id].initStage = "adapter"
              THEN initGPUAdapter(w1, id, adapterOk) ELSE w1
    IN  IF w2.engines[id].initStage = "device" THEN initGPUDevice(w2, id, ctxOk) ELSE w2

createNow(w, kind, c, ok) ==
    CASE kind = "webgpu" -> createGPUNow(w, c, TRUE, ok, ok)
      [] kind = "webgl" -> createGL(w, c, ok, "ok")
      [] OTHER -> createCanvas(w, c, ok)


(***************************************************************************)
(* SpecDrag: the three engines side by side, each created on a canvas of   *)
(* its own of the same CSS size, all fed the same pointer events.          *)
(***************************************************************************)
Kinds == <<"webgpu", "webgl", "canvas">>

RECURSIVE createAll(_, _)
createAll(w, n) ==
    IF n = 0 THEN w
    ELSE LET prev == createAll(w, n - 1)
         IN  createNow(World(prev.engines, Append(prev.cleanups, NoCleanup)),
                       Kinds[n], n, TRUE)

InitDrag ==
    /\ navigatorGpu = TRUE
    /\ phase = "mounted"
    /\ mode = "webgpu"
    /\ supportedWebGPU = TRUE
    /\ canvas = 0
    /\ engine = 0
    /\ css \in Surfaces
    /\ devicePixelRatio = 100
    /\ LET w == createAll(World(<<>>, <<>>), Len(Kinds))
       IN  engines = w.engines /\ cleanups = w.cleanups
    /\ modeLog = <<>>
    /\ lastRunStartMode = "webgpu"
    /\ canvasKey = [mode |-> "webgpu", stamp |-> "none"]
    /\ runModes = <<>>
    /\ lastCall = "create"
    /\ moveLog = <<>>
    /\ options = NoOptions

PointerEvents(xs, ys) ==
    [clientX : xs, clientY : ys, captureOk : BOOLEAN]

\* One pointer event of the given type, delivered to every engine.
delivered(type, ev) ==
    [i \in DOMAIN engines |-> dispatch(Quiet(engines)[i], type, ev, css)]

PointerDown(ev) ==
    /\ engines' = delivered("pointerdown", ev)
    /\ UNCHANGED <<appVars, cleanups, hostVars, lastCall>>

PointerMove(ev) ==
    /\ engines' = delivered("pointermove", ev)
    /\ UNCHANGED <<appVars, cleanups, hostVars, lastCall>>

PointerUp(ev) ==
    /\ engines' = delivered("pointerup", ev)
    /\ UNCHANGED <<appVars, cleanups, hostVars, lastCall>>

PointerLeave(ev) ==
    /\ engines' = delivered("pointerleave", ev)
    /\ UNCHANGED <<appVars, cleanups, hostVars, lastCall>>

NextDrag ==
    \E ev \in PointerEvents(ClientXs, ClientYs) :
        \/ PointerDown(ev)
        \/ PointerMove(ev)
        \/ PointerUp(ev)
        \/ PointerLeave(ev)

SpecDrag == InitDrag /\ [][NextDrag]_vars


(***************************************************************************)
(* C1: for every engine and every sequence of pointer events,              *)
(* translation.x and translation.y lie in [-2, 2] in every state, also     *)
(* right after each pointermove (x is held over clientWidth, y over        *)
(* clientHeight).                                                          *)
(***************************************************************************)
C1_TranslationClamped ==
    \A i \in DOMAIN engines :
        LET t == engines[i].translation
        IN  /\ -2 * css.w <= t.x /\ t.x <= 2 * css.w
            /\ -2 * css.h <= t.y /\ t.y <= 2 * css.h

\* A pointermove has just pushed every engine past 2 in x and past -2 in y.
C1_Witness ==
    \A i \in DOMAIN engines :
        /\ engines[i].pointer.dragging
        /\ engines[i].preClamp.x > 2 * css.w
        /\ engines[i].translation.x = 2 * css.w
        /\ engines[i].preClamp.y < -2 * css.h
        /\ engines[i].translation.y = -2 * css.h

(***************************************************************************)
(* C2: fed the same events on the same CSS size (w, h), the three          *)
(* trackers hold the same pointer state and the same translation after     *)
(* every event, and a pointermove while dragging with pixel delta          *)
(* (dx, dy) changes the translation, before clamping, by exactly           *)
(* (dx / (w / 2), -dy / (h / 2)).                                          *)
(***************************************************************************)
C2_TrackersAgree ==
    \A i, j \in DOMAIN engines :
        /\ engines[i].pointer = engines[j].pointer
        /\ engines[i].translation = engines[j].translation

C2_MoveDelta(ev) ==
    \A i \in DOMAIN engines :
        engines[i].pointer.dragging =>
            LET dx == ev.clientX - engines[i].pointer.lastX
                dy == ev.clientY - engines[i].pointer.lastY
                old == engines[i].translation
                pre == engines'[i].preClamp
            IN  \* (pre.x - old.x) / w = dx / (w / 2), (pre.y - old.y) / h = -dy / (h / 2)
                /\ (pre.x - old.x) * css.w = 2 * dx * css.w
                /\ (pre.y - old.y) * css.h = -2 * dy * css.h

C2_SameDragMapping ==
    /\ [](C2_TrackersAgree)
    /\ [][\A ev \in PointerEvents(ClientXs, ClientYs) :
              PointerMove(ev) => C2_MoveDelta(ev)]_vars

\* 640x400, drag from (320,200) to (400,250): translation (0.25, -0.25), unclamped.
C2_Witness ==
    /\ css = [w |-> 640, h |-> 400]
    /\ \A i \in DOMAIN engines :
           /\ engines[i].pointer = [dragging |-> TRUE, lastX |-> 400, lastY |-> 250]
           /\ 4 * engines[i].translation.x = css.w
           /\ 4 * engines[i].translation.y = -css.h
           /\ engines[i].preClamp = engines[i].translation
    /\ {engines[i].kind : i \in DOMAIN engines} = Modes

(***************************************************************************)
(* SpecSaturate: the three engines side by side on 640 x 400 canvases,     *)
(* the pointer pressed at the left edge and moved in steps of a quarter of *)
(* the width, right or left, each step contributing 0.5 or -0.5 to         *)
(* translation.x.  moveLog keeps, per pointermove taken while dragging,    *)
(* dx and the x each engine reached.                                       *)
(***************************************************************************)
DragStep == CssWidth \div 4

InitSaturate ==
    /\ InitDrag
    /\ css = [w |-> CssWidth, h |-> CssHeight]

Press(captureOk) ==
    /\ engines' = delivered("pointerdown",
                            [clientX |-> 0, clientY |-> CssHeight \div 2,
                             captureOk |-> captureOk])
    /\ UNCHANGED <<appVars, cleanups, hostVars, lastCall>>

\* The pointer moves by dx from the position the trackers recorded last.
Drag(dx) ==
    LET ev == [clientX |-> engines[1].pointer.lastX + dx,
               clientY |-> engines[1].pointer.lastY, captureOk |-> TRUE]
        after == delivered("pointermove", ev)
    IN  /\ Len(moveLog) < MaxMoves
        /\ ev.clientX >= 0
        /\ engines' = after
        /\ moveLog' = IF engines[1].pointer.dragging
                      THEN Append(moveLog,
                                  [dx |-> dx,
                                   x |-> [i \in DOMAIN engines |-> after[i].translation.x]])
                      ELSE moveLog
        /\ UNCHANGED <<appVars, cleanups, css, devicePixelRatio, options, lastCall>>

Release(captureOk) ==
    /\ engines' = delivered("pointerup",
                            [clientX |-> engines[1].pointer.lastX,
                             clientY |-> engines[1].pointer.lastY,
                             captureOk |-> captureOk])
    /\ UNCHANGED <<appVars, cleanups, hostVars, lastCall>>

NextSaturate ==
    \/ \E captureOk \in BOOLEAN : Press(captureOk)
    \/ \E dx \in {DragStep, -DragStep} : Drag(dx)
    \/ \E captureOk \in BOOLEAN : Release(captureOk)

SpecSaturate == InitSaturate /\ [][NextSaturate]_vars

(***************************************************************************)
(* C20: starting from translation.x = 0, ten successive pointermoves each  *)
(* contributing +0.5 leave translation.x at 0.5, 1.0, 1.5 and then at      *)
(* exactly 2.0 from the fourth on, and a following move contributing -0.5  *)
(* leaves it at exactly 1.5 (x is held over the width: 2.0 is 2 * w).      *)
(***************************************************************************)
C20_Saturates ==
    \A i \in DOMAIN engines, k \in 0..(Len(moveLog) - 10) :
        LET x0 == IF k = 0 THEN 0 ELSE moveLog[k].x[i]
        IN  (x0 = 0 /\ \A j \in 1..10 : moveLog[k + j].dx = DragStep) =>
                /\ \A j \in 1..10 :
                       \* j * 0.5, capped at 2.0
                       2 * moveLog[k + j].x[i] = Min(4 * css.w, j * css.w)
                /\ \A j \in 4..10 : moveLog[k + j].x[i] = 2 * css.w
                /\ (Len(moveLog) > k + 10 /\ moveLog[k + 11].dx = -DragStep) =>
                       2 * moveLog[k + 11].x[i] = 3 * css.w

\* Ten moves to the right and one to the left have been taken: every
\* engine stands at 1.5.
C20_Witness ==
    /\ Len(moveLog) = 11
    /\ \A j \in 1..10 : moveLog[j].dx = DragStep
    /\ moveLog[11].dx = -DragStep
    /\ \A i \in DOMAIN engines :
           /\ moveLog[10].x[i] = 2 * css.w
           /\ 2 * engines[i].translation.x = 3 * css.w
           /\ engines[i].pointer.dragging


(***************************************************************************)
(* SpecLoop: one engine of any of the three kinds, as create() returned it *)
(* (ready, or with init having returned early), driven by arbitrary        *)
(* start() / stop() / dispose() calls, browser frames and pointer events.  *)
(***************************************************************************)
InitLoop ==
    /\ navigatorGpu = TRUE
    /\ phase = "mounted"
    /\ mode = "webgpu"
    /\ supportedWebGPU = TRUE
    /\ canvas = 0
    /\ engine = 0
    /\ css = [w |-> CssWidth, h |-> CssHeight]
    /\ devicePixelRatio \in DevicePixelRatios
    /\ \E kind \in Modes, adapterOk \in BOOLEAN, ctxOk \in BOOLEAN :
           LET w0 == World(<<>>, <<NoCleanup>>)
               w == CASE kind = "webgpu" -> createGPUNow(w0, 1, TRUE, adapterOk, ctxOk)
                      [] kind = "webgl" -> createGL(w0, 1, ctxOk, "ok")
                      [] OTHER -> createCanvas(w0, 1, ctxOk)
           IN  engines = w.engines /\ cleanups = w.cleanups
    /\ modeLog = <<>>
    /\ lastRunStartMode = "webgpu"
    /\ canvasKey = [mode |-> "webgpu", stamp |-> "none"]
    /\ runModes = <<>>
    /\ lastCall = "create"
    /\ moveLog = <<>>
    /\ options = NoOptions

\* start() set the loop going without being blocked by the handle pool.
CanSchedule(e) == Cardinality(e.scheduled) < MaxHandles

Start(i) ==
    /\ CanSchedule(engines[i])
    /\ engines' = [Quiet(engines) EXCEPT ![i] = [start(@) EXCEPT !.halted = FALSE]]
    /\ lastCall' = "start"
    /\ UNCHANGED <<appVars, cleanups, hostVars>>

Stop(i) ==
    /\ engines' = Halted([Quiet(engines) EXCEPT ![i] = stop(@)], i)
    /\ lastCall' = "stop"
    /\ UNCHANGED <<appVars, cleanups, hostVars>>

Dispose(i) ==
    /\ engines' = Disposed(dispose(World(Quiet(engines), cleanups), i).engines, i)
    /\ lastCall' = "dispose"
    /\ UNCHANGED <<appVars, cleanups, hostVars>>

\* The browser's animation frame: every engine's listed callbacks run.
AnimationFrame ==
    /\ engines' = [i \in DOMAIN engines |-> animationFrameTick(Quiet(engines)[i])]
    /\ lastCall' = "frame"
    /\ UNCHANGED <<appVars, cleanups, hostVars>>

\* The name lastCall keeps of a pointer event: its type, marked when the
\* capture call of its handler is one that throws.
EventName(type, ev) ==
    IF ev.captureOk \/ type = "pointermove" THEN type
    ELSE CASE type = "pointerdown" -> "pointerdown, setPointerCapture throws"
           [] type = "pointerup" -> "pointerup, releasePointerCapture throws"
           [] OTHER -> "pointerleave, releasePointerCapture throws"

Pointer(type, ev) ==
    /\ engines' = delivered(type, ev)
    /\ lastCall' = EventName(type, ev)
    /\ UNCHANGED <<appVars, cleanups, hostVars>>

\* The page is zoomed or moved to another screen.
PixelRatioChanges(dpr) ==
    /\ dpr # devicePixelRatio
    /\ devicePixelRatio' = dpr
    /\ engines' = Quiet(engines)
    /\ lastCall' = "devicePixelRatio"
    /\ UNCHANGED <<appVars, cleanups, css, moveLog, options>>

\* The window's 'resize' event, delivered to the registered onResize listeners.
Resize ==
    /\ engines' = [i \in DOMAIN engines |->
                       onResize(Quiet(engines)[i], css, devicePixelRatio)]
    /\ lastCall' = "resize"
    /\ UNCHANGED <<appVars, cleanups, hostVars>>

NextLoop ==
    \/ \E i \in DOMAIN engines : Start(i)
    \/ \E i \in DOMAIN engines : Stop(i)
    \/ \E i \in DOMAIN engines : Dispose(i)
    \/ AnimationFrame
    \/ \E type \in EventTypes, ev \in PointerEvents(LoopXs, LoopYs) : Pointer(type, ev)
    \/ \E dpr \in DevicePixelRatios : PixelRatioChanges(dpr)
    \/ Resize

SpecLoop == InitLoop /\ [][NextLoop]_vars

(***************************************************************************)
(* C5: once stop() or dispose() has returned on an engine, and until a     *)
(* later start(), no step invokes its render, a browser frame included.    *)
(***************************************************************************)
C5_NoRenderAfterStop ==
    [][\A i \in DOMAIN engines :
           (engines[i].halted /\ engines'[i].halted) => engines'[i].rendered = 0]_vars

\* A frame has passed over a WebGPU engine that had rendered a dragged
\* triangle (its uniform was uploaded by a render) and was then stopped.
C5_Witness ==
    /\ lastCall = "frame"
    /\ \E i \in DOMAIN engines :
           /\ engines[i].kind = "webgpu"
           /\ engines[i].halted /\ ~engines[i].disposed
           /\ engines[i].translation # Zero
           /\ engines[i].uniform = engines[i].translation
           /\ ~engines[i].needsUpload

(***************************************************************************)
(* C10: start() on a running engine changes nothing, and under any         *)
(* sequence of start() / stop() calls and frames an engine has at most one *)
(* frame callback pending and renders at most once per frame.              *)
(***************************************************************************)
SameEngine(a, b) ==
    [a EXCEPT !.rendered = 0, !.raised = FALSE, !.halted = FALSE] =
        [b EXCEPT !.rendered = 0, !.raised = FALSE, !.halted = FALSE]

C10_StartIdempotent ==
    /\ [](\A i \in DOMAIN engines : Cardinality(engines[i].scheduled) <= 1)
    /\ [][\A i \in DOMAIN engines :
              /\ (engines[i].running /\ Start(i)) =>
                     (SameEngine(engines'[i], engines[i]) /\ engines'[i].rendered = 0)
              /\ AnimationFrame => engines'[i].rendered <= 1]_vars

\* start() was just called on an engine that was already running, in the
\* middle of its loop (a callback is pending).
C10_Witness ==
    /\ lastCall = "start"
    /\ \E i \in DOMAIN engines :
           /\ engines[i].running
           /\ engines[i].rendered = 0
           /\ Ready(engines[i])
           /\ Cardinality(engines[i].scheduled) = 1

(***************************************************************************)
(* C11: every stop() call, a repeated one included, leaves the engine not  *)
(* running with no frame callback pending, and leaves translation, pointer *)
(* state, the registered listeners and the engine's resources as they      *)
(* were; a start() after it on an engine that was created ready renders    *)
(* at once, with the translation of that moment, and sets the loop going.  *)
(***************************************************************************)
Resources(e) == <<e.device, e.ctx, e.uniform, e.needsUpload, e.surface>>

C11_StopIdempotent ==
    [][\A i \in DOMAIN engines :
           /\ Stop(i) =>
                  /\ ~engines'[i].running
                  /\ engines'[i].animationFrame = 0
                  /\ engines'[i].scheduled = {}
                  /\ stop(engines'[i]) = engines'[i]
                  /\ engines'[i].translation = engines[i].translation
                  /\ engines'[i].pointer = engines[i].pointer
                  /\ engines'[i].listeners = engines[i].listeners
                  /\ Resources(engines'[i]) = Resources(engines[i])
           /\ (Start(i) /\ engines[i].halted /\ Ready(engines[i])) =>
                  /\ engines'[i].running
                  /\ engines'[i].rendered = 1
                  /\ engines'[i].drawn = engines[i].translation
                  /\ engines'[i].translation = engines[i].translation
                  /\ Cardinality(engines'[i].scheduled) = 1]_vars

\* stop() has returned on a WebGPU engine in the middle of a drag: listeners
\* still registered, the dragged translation kept and not yet uploaded.
C11_Witness ==
    /\ lastCall = "stop"
    /\ \E i \in DOMAIN engines :
           /\ engines[i].kind = "webgpu" /\ Ready(engines[i])
           /\ ~engines[i].running /\ engines[i].scheduled = {}
           /\ engines[i].listeners /\ engines[i].pointer.dragging
           /\ engines[i].translation # Zero
           /\ engines[i].needsUpload

(***************************************************************************)
(* C12: once dispose() has returned on an engine, none of its pointer or   *)
(* resize listeners is registered: no later pointer event changes its      *)
(* translation or pointer state, and no later resize reconfigures it.      *)
(***************************************************************************)
C12_DisposeRemovesListeners ==
    /\ [](\A i \in DOMAIN engines : engines[i].disposed => ~engines[i].listeners)
    /\ [][\A i \in DOMAIN engines :
              engines[i].disposed =>
                  /\ engines'[i].translation = engines[i].translation
                  /\ engines'[i].pointer = engines[i].pointer
                  /\ Resize => engines'[i].surface = engines[i].surface]_vars

\* A pointermove arrived for a ready engine that was disposed in the middle
\* of a drag, away from the last recorded position.
C12_Witness ==
    /\ lastCall = "pointermove"
    /\ \E i \in DOMAIN engines :
           /\ engines[i].disposed /\ Ready(engines[i])
           /\ engines[i].pointer.dragging
           /\ engines[i].translation = Zero
           /\ engines[i].pointer.lastX = 0

(***************************************************************************)
(* C13: dispose() on an engine whose init returned early (no adapter, no   *)
(* context: listeners never registered) does not throw and leaves the      *)
(* engine not running with no frame callback pending.                      *)
(***************************************************************************)
C13_DisposeSafeOnPartialInit ==
    [][\A i \in DOMAIN engines :
           (Dispose(i) /\ ~Ready(engines[i])) =>
               /\ ~engines'[i].raised
               /\ ~engines'[i].running
               /\ engines'[i].animationFrame = 0
               /\ engines'[i].scheduled = {}
               /\ ~engines'[i].listeners]_vars

\* dispose() has returned on a WebGPU engine that got its device but no
\* context from the canvas.
C13_Witness ==
    /\ lastCall = "dispose"
    /\ \E i \in DOMAIN engines :
           /\ engines[i].kind = "webgpu"
           /\ engines[i].device /\ ~engines[i].ctx
           /\ engines[i].disposed /\ ~engines[i].running

(***************************************************************************)
(* C14: every render that completes draws the triangle with the            *)
(* translation current at that call, so with the update of the latest      *)
(* pointermove; and in the WebGPU engine, whenever needsUpload is false    *)
(* the uploaded uniform equals the translation.                            *)
(***************************************************************************)
C14_RenderUsesCurrentTranslation ==
    /\ [](\A i \in DOMAIN engines :
              (engines[i].kind = "webgpu" /\ ~engines[i].needsUpload) =>
                  engines[i].uniform = engines[i].translation)
    /\ [][\A i \in DOMAIN engines :
              (engines'[i].rendered > 0 /\ ~engines'[i].raised) =>
                  /\ engines'[i].drawn = engines[i].translation
                  /\ engines'[i].translation = engines[i].translation]_vars

\* A browser frame rendered a WebGPU engine's triangle at a dragged position.
C14_Witness ==
    /\ lastCall = "frame"
    /\ \E i \in DOMAIN engines :
           /\ engines[i].kind = "webgpu"
           /\ engines[i].rendered = 1
           /\ engines[i].translation # Zero
           /\ engines[i].drawn = engines[i].translation
           /\ engines[i].pointer.dragging

(***************************************************************************)
(* C17: the tracker is a two-state machine: a pointerdown leaves it        *)
(* dragging with the event's position recorded, a pointerup or             *)
(* pointerleave leaves it idle, also when releasing the capture fails,     *)
(* and a pointermove never changes the state.                              *)
(***************************************************************************)
C17_TwoStateTracker ==
    [][\A i \in DOMAIN engines, ev \in PointerEvents(LoopXs, LoopYs) :
           engines[i].listeners =>
               /\ Pointer("pointerdown", ev) =>
                      engines'[i].pointer = [dragging |-> TRUE, lastX |-> ev.clientX,
                                             lastY |-> ev.clientY]
               /\ (Pointer("pointerup", ev) \/ Pointer("pointerleave", ev)) =>
                      ~engines'[i].pointer.dragging
               /\ Pointer("pointermove", ev) =>
                      engines'[i].pointer.dragging = engines[i].pointer.dragging]_vars

(***************************************************************************)
(* C18: when the capture call of a pointer handler throws, the tracker     *)
(* still makes its transition: a pointerdown whose setPointerCapture       *)
(* throws leaves it dragging with the position recorded, a pointerup or    *)
(* pointerleave whose releasePointerCapture throws leaves it idle.         *)
(***************************************************************************)
C18_CaptureFailureSwallowed ==
    [][\A i \in DOMAIN engines, ev \in PointerEvents(LoopXs, LoopYs) :
           (engines[i].listeners /\ ~ev.captureOk) =>
               /\ Pointer("pointerdown", ev) =>
                      /\ engines'[i].pointer.dragging
                      /\ engines'[i].pointer.lastX = ev.clientX
                      /\ engines'[i].pointer.lastY = ev.clientY
               /\ (Pointer("pointerup", ev) \/ Pointer("pointerleave", ev)) =>
                      ~engines'[i].pointer.dragging]_vars

(***************************************************************************)
(* C19: a step changes an engine's translation only if it is a pointermove *)
(* delivered to the engine's listener while its tracker is dragging: no    *)
(* pointermove while idle, pointerdown, pointerup, pointerleave, start(),  *)
(* stop(), dispose(), render or resize changes it.                         *)
(***************************************************************************)
C19_OnlyDraggingMoveTranslates ==
    [][\A i \in DOMAIN engines :
           engines'[i].translation # engines[i].translation =>
               /\ lastCall' = "pointermove"
               /\ engines[i].pointer.dragging
               /\ engines[i].listeners]_vars

\* A pointermove reached the listener of an engine that had been dragged
\* and released: idle, away from the position recorded at the release.
C19_Witness ==
    /\ lastCall = "pointermove"
    /\ \E i \in DOMAIN engines :
           /\ engines[i].listeners /\ ~engines[i].pointer.dragging
           /\ engines[i].translation # Zero
           /\ engines[i].kind = "canvas"


(***************************************************************************)
(* App.svelte: the component that owns mode, canvas and engine.            *)
(* An app value is [mode, supportedWebGPU, engine, engines, cleanups,      *)
(* options, visited]; visited lists the mode each initEngine() call was    *)
(* entered with (not program state).                                       *)
(***************************************************************************)
nextMode(current) ==
    IF current = "webgl" THEN "webgpu"
    ELSE IF current = "webgpu" THEN "canvas"
    ELSE "webgl"

\* Variant: the canvas element is kept across a re-run of initEngine().
keyedCanvasKept(c) == c

\* {#key canvasKey}: a changed key destroys the <canvas> and creates a new one.
keyedCanvas(c) == c + 1

\* `${mode}-${Date.now()}`
keyNow(m) == [mode |-> m, stamp |-> "now"]

\* The option values in the argument of X.create({canvas, ...}) in mode m; a
\* key the call does not pass is listed with the value of NoArgs.
createArgs(m, o) ==
    CASE m = "webgpu" -> [NoArgs EXCEPT !.powerPreference = o.gpuPower]
      [] m = "webgl" -> [desynchronized |-> o.glDesync, powerPreference |-> o.glPower]
      [] OTHER -> [NoArgs EXCEPT !.desynchronized = o.canvasDesync]

\* The instance the create() call made is marked with the call's argument.
createdWith(app, id, o) == [app EXCEPT !.engines[id].args = createArgs(app.mode, o)]

\* "engine = await X.create(...)" resumed with instance id, then engine.start().
\* start() may throw on an instance whose init returned early; the assignment stays.
resumeInitEngine(app, id) ==
    [app EXCEPT !.engine = id,
                !.engines[id] = [start(@) EXCEPT !.halted = FALSE]]

\* engine?.dispose?.(); engine = null
disposeCurrent(app) ==
    IF app.engine = 0 THEN app
    ELSE LET d == dispose(World(app.engines, app.cleanups), app.engine)
         IN  [app EXCEPT !.engine = 0,
                         !.engines = Disposed(d.engines, app.engine)]

withWorld(app, w) == [app EXCEPT !.engines = w.engines, !.cleanups = w.cleanups]

\* Variant: no supportedWebGPU test before EngineGPU.create.
initEngineNoProbe(app, c, env) ==
    LET a == [disposeCurrent(app) EXCEPT !.visited = Append(@, app.mode)]
        w == World(a.engines, a.cleanups)
        id == Len(a.engines) + 1
    IN  IF a.mode = "webgpu"
        THEN LET w1 == initGPUBegin(construct(w, "webgpu", c), id, env.gpu)
             IN  IF w1.engines[id].initStage = "done"
                 THEN resumeInitEngine(createdWith(withWorld(a, w1), id, a.options), id)
                 ELSE createdWith(withWorld(a, w1), id, a.options)
        ELSE IF a.mode = "webgl"
        THEN resumeInitEngine(
                 createdWith(withWorld(a, createGL(w, c, env.ctxOk, env.glRes)), id, a.options), id)
        ELSE resumeInitEngine(
                 createdWith(withWorld(a, createCanvas(w, c, env.ctxOk)), id, a.options), id)

\* Variant: the fallback skips WebGL and goes to the 2D canvas engine.
initEngineFallsToCanvas(app, c, env) ==
    LET a == [disposeCurrent(app) EXCEPT !.visited = Append(@, app.mode)]
        w == World(a.engines, a.cleanups)
        id == Len(a.engines) + 1
    IN  IF a.mode = "webgpu"
        THEN IF ~a.supportedWebGPU
             THEN resumeInitEngine(
                      createdWith(withWorld([a EXCEPT !.mode = "canvas",
                                                 !.visited = Append(@, "canvas")],
                                       createCanvas(w, c, env.ctxOk)), id, a.options), id)
             ELSE LET w1 == initGPUBegin(construct(w, "webgpu", c), id, env.gpu)
                  IN  IF w1.engines[id].initStage = "done"
                      THEN resumeInitEngine(createdWith(withWorld(a, w1), id, a.options), id)
                      ELSE createdWith(withWorld(a, w1), id, a.options)
        ELSE IF a.mode = "webgl"
        THEN resumeInitEngine(
                 createdWith(withWorld(a, createGL(w, c, env.ctxOk, env.glRes)), id, a.options), id)
        ELSE resumeInitEngine(
                 createdWith(withWorld(a, createCanvas(w, c, env.ctxOk)), id, a.options), id)

\* initEngine() up to its first await on the browser, on canvas c.  env.gpu is
\* 'gpu' in navigator, env.ctxOk whether canvas.getContext yields a context,
\* env.glRes what setupGL meets.
RECURSIVE initEngine(_, _, _)
initEngine(app, c, env) ==
    LET a == [disposeCurrent(app) EXCEPT !.visited = Append(@, app.mode)]
        w == World(a.engines, a.cleanups)
        id == Len(a.engines) + 1
    IN  IF a.mode = "webgpu"
        THEN IF ~a.supportedWebGPU
             THEN initEngine([a EXCEPT !.mode = "webgl"], c, env)
             ELSE LET w1 == initGPUBegin(construct(w, "webgpu", c), id, env.gpu)
                  IN  IF w1.engines[id].initStage = "done"
                      THEN resumeInitEngine(createdWith(withWorld(a, w1), id, a.options), id)
                      ELSE createdWith(withWorld(a, w1), id, a.options)
        ELSE IF a.mode = "webgl"
        THEN resumeInitEngine(
                 createdWith(withWorld(a, createGL(w, c, env.ctxOk, env.glRes)), id, a.options), id)
        ELSE resumeInitEngine(
                 createdWith(withWorld(a, createCanvas(w, c, env.ctxOk)), id, a.options), id)

\* onMount: the probe.
onMount(app, gpu) ==
    [app EXCEPT !.supportedWebGPU = gpu,
                !.mode = IF gpu THEN @ ELSE "webgl"]

\* onDestroy
onDestroy(app) ==
    IF app.engine = 0 THEN app
    ELSE LET d == dispose(World(app.engines, app.cleanups), app.engine)
         IN  [app EXCEPT !.engines = Disposed(d.engines, app.engine)]

\* {#if mode === "webgpu" && !supportedWebGPU} <span class="warn">
warnShown == mode = "webgpu" /\ ~supportedWebGPU

App == [mode |-> mode, supportedWebGPU |-> supportedWebGPU, engine |-> engine,
        engines |-> Quiet(engines), cleanups |-> cleanups, options |-> options,
        visited |-> <<>>]

\* The canvases created so far each carry their own properties.
canvasProps(cl, c) == IF c > Len(cl) THEN Append(cl, NoCleanup) ELSE cl

\* The host's answers to one run: Env with every GL object created, EnvGL
\* with the failures of setupGL as well.
Env == [gpu : {navigatorGpu}, ctxOk : BOOLEAN, glRes : {"ok"}]
EnvGL == [gpu : {navigatorGpu}, ctxOk : BOOLEAN, glRes : GLResults]

SetApp(a) ==
    /\ mode' = a.mode
    /\ supportedWebGPU' = a.supportedWebGPU
    /\ engine' = a.engine
    /\ engines' = a.engines
    /\ cleanups' = a.cleanups

Init ==
    /\ navigatorGpu \in BOOLEAN
    /\ phase = "init"
    /\ mode = "webgpu"
    /\ supportedWebGPU = FALSE
    /\ canvas = 0
    /\ engine = 0
    /\ engines = <<>>
    /\ cleanups = <<>>
    /\ css = [w |-> CssWidth, h |-> CssHeight]
    /\ modeLog = <<>>
    /\ lastRunStartMode = "webgpu"
    /\ canvasKey = [mode |-> "webgpu", stamp |-> "none"]
    /\ runModes = <<>>
    /\ lastCall = "none"
    /\ devicePixelRatio = 100
    /\ moveLog = <<>>
    /\ options = NoOptions

\* The component mounts: bind:this sets canvas, onMount probes, and the
\* reactive statement "$: if (canvas) initEngine()" runs in the same flush.
Mount(env) ==
    /\ phase = "init"
    /\ LET c == Len(cleanups) + 1   \* the first <canvas> element
           probed == onMount(App, navigatorGpu)
           a == initEngine([probed EXCEPT !.cleanups = canvasProps(@, c)], c, env)
       IN  /\ canvas' = c
           /\ lastRunStartMode' = probed.mode
           /\ SetApp(a)
           /\ runModes' = a.visited
           /\ modeLog' = <<[mode |-> a.mode, rebuilt |-> TRUE]>>
    /\ phase' = "mounted"
    /\ lastCall' = "mount"
    /\ UNCHANGED <<navigatorGpu, hostVars, canvasKey>>

\* The flush after a click handler assigned canvasKey = key: if the key
\* differs from the one the {#key} block holds, the block replaces the canvas,
\* bind:this sets canvas and "$: if (canvas) initEngine()" re-runs; with an
\* equal key nothing is replaced and nothing re-runs.
Flush(app, key, env) ==
    LET rekeyed == key # canvasKey
        c == IF rekeyed THEN keyedCanvas(canvas) ELSE canvas
        a == IF rekeyed
             THEN initEngine([app EXCEPT !.cleanups = canvasProps(@, c)], c, env)
             ELSE app
    IN  /\ canvas' = c
        /\ canvasKey' = key
        /\ lastRunStartMode' = IF rekeyed THEN app.mode ELSE lastRunStartMode
        /\ SetApp(a)
        /\ runModes' = a.visited

\* Date.now() moves on: the time in canvasKey is no longer the current one.
ClockTick ==
    /\ canvasKey.stamp = "now"
    /\ canvasKey' = [canvasKey EXCEPT !.stamp = "earlier"]
    /\ UNCHANGED <<navigatorGpu, phase, mode, supportedWebGPU, canvas, engine,
                   engines, modeLog, lastRunStartMode, runModes, cleanups,
                   hostVars, lastCall>>

\* toggle(): next mode and canvasKey = `${mode}-${Date.now()}`, then the flush.
Toggle(env) ==
    /\ phase = "mounted"
    /\ Len(modeLog) <= MaxToggles
    /\ LET toggled == [App EXCEPT !.mode = nextMode(@)]
       IN  Flush(toggled, keyNow(toggled.mode), env)
    /\ modeLog' = Append(modeLog, [mode |-> mode', rebuilt |-> canvasKey' # canvasKey])
    /\ lastCall' = "toggle"
    /\ UNCHANGED <<navigatorGpu, phase, hostVars>>

\* requestAdapter() of a pending Engine.init settles.
AdapterSettles(id, adapterOk) ==
    /\ engines[id].initStage = "adapter"
    /\ LET w == initGPUAdapter(World(Quiet(engines), cleanups), id, adapterOk)
           a == withWorld(App, w)
       IN  SetApp(IF w.engines[id].initStage = "done" THEN resumeInitEngine(a, id) ELSE a)
    /\ lastCall' = "adapter"
    /\ UNCHANGED <<navigatorGpu, phase, canvas, hostVars, modeLog, lastRunStartMode,
                   canvasKey, runModes>>

\* requestDevice() settles: init runs to its end, create() resolves, and the
\* initEngine() run that awaited it assigns engine and starts it.
DeviceSettles(id, ctxOk) ==
    /\ engines[id].initStage = "device"
    /\ LET w == initGPUDevice(World(Quiet(engines), cleanups), id, ctxOk)
       IN  SetApp(resumeInitEngine(withWorld(App, w), id))
    /\ lastCall' = "device"
    /\ UNCHANGED <<navigatorGpu, phase, canvas, hostVars, modeLog, lastRunStartMode,
                   canvasKey, runModes>>

\* A pointer event on the page's canvas (the one bound, in the document),
\* delivered to the listeners registered on it.
CanvasPointer(type, ev) ==
    /\ phase = "mounted"
    /\ canvas <= MaxDragged
    /\ engines' = [i \in DOMAIN engines |->
                       IF engines[i].canvas = canvas
                       THEN dispatch(Quiet(engines)[i], type, ev, css)
                       ELSE Quiet(engines)[i]]
    /\ lastCall' = "pointer"
    /\ UNCHANGED <<appVars, cleanups, hostVars>>

Destroy ==
    /\ phase = "mounted"
    /\ SetApp(onDestroy(App))
    /\ phase' = "destroyed"
    /\ lastCall' = "destroy"
    /\ UNCHANGED <<navigatorGpu, canvas, hostVars, modeLog, lastRunStartMode,
                   canvasKey, runModes>>

Next ==
    \/ \E env \in Env : Mount(env)
    \/ \E env \in Env : Toggle(env)
    \/ \E id \in DOMAIN engines, ok \in BOOLEAN : AdapterSettles(id, ok)
    \/ \E id \in DOMAIN engines, ok \in BOOLEAN : DeviceSettles(id, ok)
    \/ AnimationFrame
    \/ ClockTick
    \/ Destroy

Spec == Init /\ [][Next]_vars

(***************************************************************************)
(* SpecSwitch: the mounted component with the user dragging on the canvas  *)
(* between clicks on the mode toggle and on the option buttons.  Each      *)
(* engine draws once, in the start() of the run that built it; later       *)
(* frames are left to Spec and SpecOptions.                                *)
(***************************************************************************)
Switch(env) ==
    /\ phase = "mounted"
    /\ LET toggled == [App EXCEPT !.mode = nextMode(@)]
       IN  Flush(toggled, keyNow(toggled.mode), env)
    /\ modeLog' = Append(modeLog, [mode |-> mode', rebuilt |-> canvasKey' # canvasKey])
    /\ lastCall' = "toggle"
    /\ UNCHANGED <<navigatorGpu, phase, hostVars>>

\* toggleGLDesync, toggleCanvasDesync, cycleGLPower, cycleGPUPower
nextPower(p) ==
    IF p = "default" THEN "high-performance"
    ELSE IF p = "high-performance" THEN "low-power"
    ELSE "default"

toggleGLDesync(o) == [o EXCEPT !.glDesync = ~@]
toggleCanvasDesync(o) == [o EXCEPT !.canvasDesync = ~@]
cycleGLPower(o) == [o EXCEPT !.glPower = nextPower(@)]
cycleGPUPower(o) == [o EXCEPT !.gpuPower = nextPower(@)]

Buttons == {"toggleGLDesync", "toggleCanvasDesync", "cycleGLPower", "cycleGPUPower"}

\* {#if mode === ...}: the buttons the page shows in mode m.
shown(button, m) ==
    CASE button \in {"toggleGLDesync", "cycleGLPower"} -> m = "webgl"
      [] button = "cycleGPUPower" -> m = "webgpu"
      [] OTHER -> m = "canvas"

click(button, o) ==
    CASE button = "toggleGLDesync" -> toggleGLDesync(o)
      [] button = "toggleCanvasDesync" -> toggleCanvasDesync(o)
      [] button = "cycleGLPower" -> cycleGLPower(o)
      [] OTHER -> cycleGPUPower(o)

\* An option button: the option changes, canvasKey = `${mode}-${Date.now()}`,
\* then the flush.
OptionToggle(button, env) ==
    /\ phase = "mounted"
    /\ shown(button, mode)
    /\ options' = click(button, options)
    /\ Flush([App EXCEPT !.options = click(button, options)], keyNow(mode), env)
    /\ lastCall' = "option"
    /\ UNCHANGED <<navigatorGpu, phase, modeLog, css, devicePixelRatio, moveLog>>

NextSwitch ==
    \/ \E env \in Env : Mount(env)
    \/ \E env \in Env : canvas <= MaxSwitches /\ Switch(env)
    \/ \E button \in Buttons, env \in Env :
           canvas <= MaxSwitches /\ OptionToggle(button, env)
    \/ \E id \in DOMAIN engines, ok \in BOOLEAN : AdapterSettles(id, ok)
    \/ \E id \in DOMAIN engines, ok \in BOOLEAN : DeviceSettles(id, ok)
    \/ ClockTick
    \/ \E type \in EventTypes, ev \in PointerEvents(LoopXs, LoopYs) :
           CanvasPointer(type, ev)

SpecSwitch == Init /\ [][NextSwitch]_vars

(***************************************************************************)
(* SpecOptions: the mounted component with clicks on the mode toggle and   *)
(* on the option buttons, some of them before Date.now() has moved on,     *)
(* and WebGL engines whose shaders, program or buffer fail.                *)
(***************************************************************************)
NextOptions ==
    \/ \E env \in EnvGL : Mount(env)
    \/ \E env \in EnvGL : canvas <= MaxRebuilds /\ Switch(env)
    \/ \E button \in Buttons, env \in EnvGL :
           canvas <= MaxRebuilds /\ OptionToggle(button, env)
    \/ \E id \in DOMAIN engines, ok \in BOOLEAN : AdapterSettles(id, ok)
    \/ \E id \in DOMAIN engines, ok \in BOOLEAN : DeviceSettles(id, ok)
    \/ AnimationFrame
    \/ ClockTick

SpecOptions == Init /\ [][NextOptions]_vars

(***************************************************************************)
(* SpecCycle: the mounted component and clicks on the mode toggle alone,   *)
(* some of them before Date.now() has moved on.                            *)
(***************************************************************************)
NextCycle ==
    \/ \E env \in Env : Mount(env)
    \/ \E env \in Env : Len(modeLog) <= MaxCycle /\ Switch(env)
    \/ ClockTick

SpecCycle == Init /\ [][NextCycle]_vars


(***************************************************************************)
(* C15: every engine instance is constructed with translation (0, 0) and   *)
(* an idle pointer and still has them when its create() resolves and when  *)
(* the component makes it the active engine, whatever translation earlier  *)
(* engines reached: nothing is carried across a mode toggle, an option     *)
(* toggle or the WebGPU fallback.                                          *)
(***************************************************************************)
AtOrigin(e) == e.translation = Zero /\ e.pointer = IdlePointer /\ e.uniform = Zero

C15_NewBackendStartsAtOrigin ==
    /\ [](\A i \in DOMAIN engines : engines[i].initStage # "done" => AtOrigin(engines[i]))
    /\ [][/\ \A i \in DOMAIN engines' :
                (\/ i \notin DOMAIN engines
                 \/ engines[i].initStage # "done" /\ engines'[i].initStage = "done")
                => /\ AtOrigin(engines'[i])
                   /\ engines'[i].rendered > 0 /\ ~engines'[i].raised =>
                          engines'[i].drawn = Zero
          /\ (engine' # engine /\ engine' # 0) => AtOrigin(engines'[engine'])]_vars

\* WebGPU absent: a WebGL engine was dragged away from the origin, then the
\* toggle asked for webgpu and fell back to a new WebGL engine, at the origin.
C15_Witness ==
    /\ lastCall = "toggle"
    /\ ~navigatorGpu
    /\ lastRunStartMode = "webgpu" /\ mode = "webgl"
    /\ engine # 0 /\ Ready(engines[engine]) /\ engines[engine].running
    /\ AtOrigin(engines[engine])
    /\ \E j \in DOMAIN engines :
           /\ j # engine /\ engines[j].disposed
           /\ engines[j].translation # Zero /\ engines[j].pointer.dragging

(***************************************************************************)
(* C16: in every state after initEngine() has completed in which WebGPU is *)
(* unsupported and the active engine is a fallback engine, the page shows  *)
(* the "WebGPU not supported, fell back" signal.                           *)
(***************************************************************************)
C16_FallbackSignalled ==
    ( /\ phase = "mounted"
      /\ ~navigatorGpu
      /\ engine # 0
      /\ engines[engine].kind # "webgpu"
      /\ engines[engine].initStage = "done" )
    => warnShown

(***************************************************************************)
(* C3: at every moment, whatever the interleaving of toggles, teardown and *)
(* pending constructions, at most one engine instance is live (its         *)
(* listeners registered or its frame loop running).                        *)
(***************************************************************************)
Live(e) == e.listeners \/ e.scheduled # {}

C3_AtMostOneLive ==
    Cardinality({i \in DOMAIN engines : Live(engines[i])}) <= 1

(***************************************************************************)
(* C4: no canvas is owned by two engines at once: on every canvas at most  *)
(* one engine constructed on it has not completed dispose(), so a          *)
(* construction on a canvas begins only when every engine constructed on   *)
(* it before has been disposed.                                            *)
(***************************************************************************)
Owners(c) == {i \in DOMAIN engines : engines[i].canvas = c /\ ~engines[i].disposed}

C4_SurfaceExclusivelyOwned ==
    \A c \in DOMAIN cleanups : Cardinality(Owners(c)) <= 1

\* A toggle overtook a pending WebGPU construction, which then completed:
\* two engines are undisposed at once, each the only owner of its canvas.
C4_Witness ==
    \E i, j \in DOMAIN engines :
        /\ i < j
        /\ engines[i].kind = "webgpu" /\ engines[i].initStage = "done"
        /\ engines[i].running /\ engines[j].running
        /\ engines[i].canvas # engines[j].canvas
        /\ Owners(engines[i].canvas) = {i}
        /\ Owners(engines[j].canvas) = {j}

(***************************************************************************)
(* C6: a toggle maps webgl to webgpu, webgpu to canvas and canvas to       *)
(* webgl; three toggles in a row, each followed by its reconstruction,     *)
(* leave mode at the value it had before them, the value the mount or a    *)
(* reconstructing toggle left.                                             *)
(***************************************************************************)
C6_ToggleCycle ==
    /\ nextMode("webgl") = "webgpu"
    /\ nextMode("webgpu") = "canvas"
    /\ nextMode("canvas") = "webgl"
    /\ \A i \in 1..(Len(modeLog) - 3) :
           (\A j \in i..(i + 3) : modeLog[j].rebuilt) =>
               modeLog[i + 3].mode = modeLog[i].mode
    /\ (lastCall = "toggle" /\ modeLog[Len(modeLog)].rebuilt) =>
           /\ mode = modeLog[Len(modeLog)].mode
           /\ lastRunStartMode = nextMode(modeLog[Len(modeLog) - 1].mode)

C8_FallbackOnCreateFailure ==
    \A i \in DOMAIN engines :
        ( /\ phase = "mounted"
          /\ engines[i].kind = "webgpu"
          /\ engines[i].initStage = "done"
          /\ ~Ready(engines[i])
          /\ engines[i].canvas = canvas )
        => /\ mode = "webgl"
           /\ engine # 0
           /\ engines[engine].kind = "webgl"
           /\ engines[engine].running

(***************************************************************************)
(* C9: create() yields only ready instances (context acquired, listeners   *)
(* registered at creation), so start() never runs on an instance whose     *)
(* API or context is missing.                                              *)
(***************************************************************************)
C9_CreateYieldsReady ==
    \A i \in DOMAIN engines :
        /\ engines[i].initStage = "done" => Ready(engines[i])
        /\ engines[i].running => Ready(engines[i])


(***************************************************************************)
(* C21: initEngine() terminates (the recursion is evaluated to its end     *)
(* inside the step that calls it) and falls back along webgpu -> webgl ->  *)
(* canvas only: the modes one run is entered with are consecutive modes    *)
(* of that order, so a run makes at most two fallback transitions and      *)
(* never re-enters a mode it fell back from; the run ends by constructing  *)
(* an engine of the mode it reached on the current canvas.                 *)
(***************************************************************************)
FallbackOrder == <<"webgpu", "webgl", "canvas">>

C21_BoundedFallback ==
    /\ Len(runModes) <= Len(FallbackOrder)
    /\ \A i \in 1..(Len(runModes) - 1) :
           \E k \in 1..(Len(FallbackOrder) - 1) :
               runModes[i] = FallbackOrder[k] /\ runModes[i + 1] = FallbackOrder[k + 1]
    /\ (runModes # <<>> /\ lastCall \in {"mount", "toggle", "option"}) =>
           /\ mode = runModes[Len(runModes)]
           /\ engines # <<>>
           /\ engines[Len(engines)].kind = mode
           /\ engines[Len(engines)].canvas = canvas

\* WebGPU absent: a toggle asked for webgpu, the run fell back once and
\* started a WebGL engine.
C21_Witness ==
    /\ lastCall = "toggle"
    /\ runModes = <<"webgpu", "webgl">>
    /\ engine # 0
    /\ engines[engine].kind = "webgl" /\ engines[engine].running


(***************************************************************************)
(* C22: a context that cannot be obtained never surfaces as an exception:  *)
(* no call of a run throws, and when the WebGL engine built by a run got   *)
(* no context the run has fallen back one step, to mode canvas with a 2D   *)
(* canvas engine as the active engine.                                     *)
(***************************************************************************)
C22_ContextFailureFallsBack ==
    /\ \A i \in DOMAIN engines : ~engines[i].raised
    /\ \A i \in DOMAIN engines :
           ( /\ phase = "mounted"
             /\ engines[i].kind = "webgl"
             /\ engines[i].initStage = "done"
             /\ ~engines[i].ctx
             /\ engines[i].canvas = canvas )
           => /\ mode = "canvas"
              /\ engine # 0
              /\ engines[engine].kind = "canvas"


(***************************************************************************)
(* C23: a WebGL engine whose shader compilation, program link or buffer    *)
(* allocation failed has the failure logged, never has its render step     *)
(* invoked (its loop is not running and no frame of it is scheduled), and  *)
(* the run that built it leaves mode at webgl.                             *)
(***************************************************************************)
C23_ResourceFailureStopsRendering ==
    \A i \in DOMAIN engines :
        ( /\ engines[i].kind = "webgl"
          /\ engines[i].initStage = "done"
          /\ engines[i].ctx
          /\ ~(engines[i].program /\ engines[i].buffer) )
        => /\ engines[i].logged
           /\ engines[i].rendered = 0
           /\ ~engines[i].running
           /\ engines[i].scheduled = {}
           /\ (phase = "mounted" /\ engines[i].canvas = canvas) => mode = "webgl"


C25_OptionToggleRebuilds ==
    /\ [][options' # options =>
             /\ canvas' # canvas
             /\ mode' = mode
             /\ Len(engines') = Len(engines) + 1
             /\ engines'[Len(engines')].canvas = canvas'
             /\ engines'[Len(engines')].args = createArgs(mode', options')]_vars
    /\ []((lastCall = "option" /\ engine # 0) =>
             engines[engine].args = createArgs(engines[engine].kind, options))


(***************************************************************************)
(* C26: for each of the three engines, once the event that engine sizes    *)
(* its canvas on has come after a change of the CSS size or of             *)
(* devicePixelRatio (the window's resize event for Engine, a drawn frame   *)
(* for EngineCanvas, either of them for EngineGL), the canvas's width and  *)
(* height are floor(CSS size * devicePixelRatio).                          *)
(***************************************************************************)
C26_BufferMatchesCssSize ==
    \A i \in DOMAIN engines :
        LET e == engines[i]
            resized == lastCall = "resize"
            drew == lastCall = "frame" /\ e.rendered > 0
        IN  ( /\ Ready(e) /\ e.listeners
              /\ CASE e.kind = "webgpu" -> resized
                    [] e.kind = "canvas" -> drew
                    [] OTHER -> resized \/ drew )
            => e.surface = backingSize(css, devicePixelRatio)


(***************************************************************************)
(* C27: whenever no create() is pending, the engine the component holds    *)
(* is of the kind its mode names and was constructed on the bound canvas;  *)
(* and whenever the component takes a new engine it is one constructed on  *)
(* the bound canvas, never the late result of a run an earlier canvas      *)
(* started.                                                                *)
(***************************************************************************)
Pending(e) == e.initStage \in {"adapter", "device"}

C27_HeldBackendIsCurrent ==
    /\ []((/\ phase = "mounted"
           /\ engine # 0
           /\ \A i \in DOMAIN engines : ~Pending(engines[i]))
          => /\ engines[engine].kind = mode
             /\ engines[engine].canvas = canvas)
    /\ [][(engine' # engine /\ engine' # 0) =>
             engines'[engine'].canvas = canvas']_vars


(***************************************************************************)
(* C28: once onDestroy has run, no engine is running, none has a frame     *)
(* scheduled and none has listeners registered, also after a create()      *)
(* that was pending at the teardown has completed.                         *)
(***************************************************************************)
C28_NothingLiveAfterDestroy ==
    phase = "destroyed" =>
        \A i \in DOMAIN engines :
            /\ ~engines[i].running
            /\ engines[i].scheduled = {}
            /\ ~engines[i].listeners


(***************************************************************************)
(* C29: between frame callbacks an engine's running flag is true exactly   *)
(* when one of its frame callbacks is scheduled, for ready instances and   *)
(* for instances whose init returned early (whose render step throws).     *)
(***************************************************************************)
C29_RunningIffFramePending ==
    \A i \in DOMAIN engines :
        engines[i].running <=> engines[i].scheduled # {}


(***************************************************************************)
(* C30: every mode whose engine the host can construct is selected by      *)
(* clicking the mode toggle often enough, with WebGPU present or absent:   *)
(* once the toggle has been clicked three or more times, each click        *)
(* followed by its reconstruction, every such mode has been the mode a     *)
(* reconstruction left; with WebGPU absent these are webgl and canvas.     *)
(***************************************************************************)
Constructible == IF navigatorGpu THEN Modes ELSE {"webgl", "canvas"}

C30_EveryModeSelectable ==
    ( /\ phase = "mounted"
      /\ Len(modeLog) > 3
      /\ \A j \in DOMAIN modeLog : modeLog[j].rebuilt )
    => \A m \in Constructible : \E j \in DOMAIN modeLog : modeLog[j].mode = m


====
